---- MODULE Spec2Model ----
(***************************************************************************)
(* Model of scripts/earthly_name_consistency.py: the guardrail that walks  *)
(* every Cargo.toml under ROOT, takes the cdylib name of each manifest and *)
(* compares it, after normalisation, with the first artifact name found in *)
(* the Earthfile of the same directory.                                    *)
(*                                                                         *)
(* Python str values are sequences of one-character strings, so that       *)
(* str.replace, str.lower, the regular expression search and the message   *)
(* formatting are computed character by character.  None is a sequence     *)
(* that no str can equal.  A dict is a function on its keys.               *)
(***************************************************************************)
EXTENDS Integers, Sequences, FiniteSets, TLC

VARIABLES
    ROOT,       \* the tree: the directories holding a Cargo.toml, in rglob order
    pc,         \* "loop" (lines 53-64), "exited"; "call", "returned" for a direct call
    cargo,      \* loop variable: index in ROOT of the current Cargo.toml, 0 before
    name,       \* module-level variable name (line 54)
    e_name,     \* module-level variable e_name (line 57)
    errors,     \* list of message strings (line 52)
    stdout,     \* characters written to standard output
    exit_code,  \* process exit status, NoCode while running
    exc,        \* the uncaught exception that ended the run, NoExc otherwise
    arg,        \* arguments of a direct call of normalize
    ret         \* results of a direct call of normalize

vars == <<ROOT, pc, cargo, name, e_name, errors, stdout, exit_code, exc, arg, ret>>

\* ---------------------------------------------------------------- bounds
MaxDirs == 2
MaxLen == 2

\* ---------------------------------------------------------------- values
None == <<"None">>
Unbound == <<"Unbound">>
NoExc == "NoExc"
NoCode == -1

UpperCase == <<"A", "B", "C", "D", "E", "F", "G", "H", "I", "J", "K", "L", "M",
               "N", "O", "P", "Q", "R", "S", "T", "U", "V", "W", "X", "Y", "Z">>
LowerCase == <<"a", "b", "c", "d", "e", "f", "g", "h", "i", "j", "k", "l", "m",
               "n", "o", "p", "q", "r", "s", "t", "u", "v", "w", "x", "y", "z">>
Digits == <<"0", "1", "2", "3", "4", "5", "6", "7", "8", "9">>

Range(s) == {s[i] : i \in DOMAIN s}

\* bool(x) of a str-or-None value: None and "" are falsy
Truthy(x) == x # None /\ x # <<>>

\* dict.get(key, default)
dict_get(d, key, default) == IF key \in DOMAIN d THEN d[key] ELSE default

\* ---------------------------------------------------------------- str methods
\* one character of str.lower()
lower_char(c) ==
    IF \E i \in DOMAIN UpperCase : UpperCase[i] = c
    THEN LowerCase[CHOOSE i \in DOMAIN UpperCase : UpperCase[i] = c]
    ELSE c

\* str.lower()
str_lower(s) == [i \in DOMAIN s |-> lower_char(s[i])]

\* str.replace(old, new) for one-character old and new
str_replace(s, old, new) == [i \in DOMAIN s |-> IF s[i] = old THEN new ELSE s[i]]

\* ---------------------------------------------------------------- normalize
normalize_no_lower(n) ==
    IF ~Truthy(n) THEN None ELSE str_replace(n, "-", "_")

normalize(n) ==
    IF ~Truthy(n) THEN None ELSE str_lower(str_replace(n, "-", "_"))

\* ---------------------------------------------------------------- EARTHLY_RE
OutFlag == <<"-", "-", "o", "u", "t", "=">>
SaveArtifact == <<"S", "A", "V", "E", " ", "A", "R", "T", "I", "F", "A", "C", "T", " ">>
DotWasm == <<".", "w", "a", "s", "m">>

\* the character class [A-Za-z0-9_-]
NameChars == Range(UpperCase) \cup Range(LowerCase) \cup Range(Digits) \cup {"_", "-"}

\* the literal lit occurs in text at position i
LiteralAt(text, i, lit) ==
    /\ i + Len(lit) - 1 <= Len(text)
    /\ SubSeq(text, i, i + Len(lit) - 1) = lit

\* lengths k >= 1 such that text[j .. j+k-1] is in the class and \.wasm follows
GroupLens(text, j) ==
    {k \in 1..(Len(text) - j + 1) :
        /\ \A p \in j..(j + k - 1) : text[p] \in NameChars
        /\ LiteralAt(text, j + k, DotWasm)}

Max(S) == CHOOSE x \in S : \A y \in S : y <= x
Min(S) == CHOOSE x \in S : \A y \in S : x <= y

\* group 1 of a match of the part after the alternation, starting at j
\* (the + is greedy: the longest admissible repetition is taken)
GroupAt(text, j) ==
    IF GroupLens(text, j) = {} THEN None
    ELSE SubSeq(text, j, j + Max(GroupLens(text, j)) - 1)

\* group 1 of a match of EARTHLY_RE anchored at position i, None if none
MatchAt(text, i) ==
    IF LiteralAt(text, i, OutFlag) /\ GroupAt(text, i + Len(OutFlag)) # None
    THEN GroupAt(text, i + Len(OutFlag))
    ELSE IF LiteralAt(text, i, SaveArtifact)
    THEN GroupAt(text, i + Len(SaveArtifact))
    ELSE None

MatchPositions(text) == {i \in 1..Len(text) : MatchAt(text, i) # None}

EARTHLY_RE_search_last(text) ==
    IF MatchPositions(text) = {} THEN None
    ELSE MatchAt(text, Max(MatchPositions(text)))

\* EARTHLY_RE.search(text) followed by match.group(1): the leftmost match
EARTHLY_RE_search(text) ==
    IF MatchPositions(text) = {} THEN None
    ELSE MatchAt(text, Min(MatchPositions(text)))

\* ---------------------------------------------------------------- earthly_name
\* dir is a directory record; ef.exists() is dir.has_earthfile
earthly_name(dir) ==
    IF ~dir.has_earthfile THEN None
    ELSE EARTHLY_RE_search(dir.earthfile)

\* ---------------------------------------------------------------- cargo_name
\* The result of a call: the exception raised (NoExc if none) and the value.
Return(v) == [raised |-> NoExc, value |-> v]
Raise(e) == [raised |-> e, value |-> None]

\* data["package"]["name"]
package_name(data) ==
    IF "package" \notin DOMAIN data THEN Raise("KeyError")
    ELSE IF "name" \notin DOMAIN data["package"] THEN Raise("KeyError")
    ELSE Return(data["package"]["name"])

cargo_name_ignore_crate_type(file) ==
    IF ~file.valid THEN Raise("TOMLDecodeError")
    ELSE LET lib == dict_get(file.data, "lib", <<>>)
         IN IF Truthy(dict_get(lib, "name", None))
            THEN Return(dict_get(lib, "name", None))
            ELSE package_name(file.data)

cargo_name_prefer_package(file) ==
    IF ~file.valid THEN Raise("TOMLDecodeError")
    ELSE LET lib == dict_get(file.data, "lib", <<>>)
         IN IF "cdylib" \notin Range(dict_get(lib, "crate-type", <<>>))
            THEN Return(None)
            ELSE IF package_name(file.data).raised = NoExc
                    /\ Truthy(package_name(file.data).value)
            THEN package_name(file.data)
            ELSE Return(dict_get(lib, "name", None))

cargo_name_skip_malformed(file) ==
    IF ~file.valid THEN Return(None)
    ELSE LET lib == dict_get(file.data, "lib", <<>>)
         IN IF "cdylib" \notin Range(dict_get(lib, "crate-type", <<>>))
            THEN Return(None)
            ELSE IF Truthy(dict_get(lib, "name", None))
            THEN Return(dict_get(lib, "name", None))
            ELSE package_name(file.data)

cargo_name_missing_is_none(file) ==
    IF ~file.valid THEN Raise("TOMLDecodeError")
    ELSE LET lib == dict_get(file.data, "lib", <<>>)
         IN IF "cdylib" \notin Range(dict_get(lib, "crate-type", <<>>))
            THEN Return(None)
            ELSE IF Truthy(dict_get(lib, "name", None))
            THEN Return(dict_get(lib, "name", None))
            ELSE IF package_name(file.data).raised = NoExc
            THEN package_name(file.data)
            ELSE Return(None)

\* file is the Cargo.toml: tomllib.loads either raises or yields file.data
cargo_name(file) ==
    IF ~file.valid THEN Raise("TOMLDecodeError")
    ELSE LET lib == dict_get(file.data, "lib", <<>>)
         IN IF "cdylib" \notin Range(dict_get(lib, "crate-type", <<>>))
            THEN Return(None)
            ELSE IF Truthy(dict_get(lib, "name", None))
            THEN Return(dict_get(lib, "name", None))
            ELSE package_name(file.data)

\* ---------------------------------------------------------------- the scan
\* cargo.parent, rendered: the directory of the c-th Cargo.toml found
parent(c) == <<"/", "d", Digits[c + 1]>>

\* f"{cargo.parent}: Cargo '{name}' vs Earthly '{e_name}'"
message(c, n, e) ==
    parent(c) \o <<":", " ", "C", "a", "r", "g", "o", " ", "'">> \o n
              \o <<"'", " ", "v", "s", " ", "E", "a", "r", "t", "h", "l", "y", " ", "'">>
              \o e \o <<"'">>

mismatch_raw(n, e) == Truthy(e) /\ e # n

\* the condition of line 61
mismatch(n, e) == Truthy(e) /\ normalize(e) # normalize(n)

errors_prepend(errs, m) == <<m>> \o errs

\* errors.append(...)
errors_append(errs, m) == Append(errs, m)

RECURSIVE str_join(_, _)
\* sep.join(list)
str_join(sep, list) ==
    IF list = <<>> THEN <<>>
    ELSE IF Len(list) = 1 THEN list[1]
    ELSE list[1] \o sep \o str_join(sep, Tail(list))

print_newline_only(out, s) == out \o <<"\n">>

\* print(s): the text and a newline go to standard output
print(out, s) == out \o s \o <<"\n">>

\* ---------------------------------------------------------------- inputs
foo == <<"f", "o", "o">>
foo_bar == <<"f", "o", "o", "-", "b", "a", "r">>
b == <<"b">>

Valid(data) == [valid |-> TRUE, data |-> data]
\* a Cargo.toml on which tomllib.loads raises TOMLDecodeError
Malformed == [valid |-> FALSE, data |-> <<>>]

Package(n) == [package |-> [name |-> n]]
Lib(l) == [lib |-> l]
CrateType(l) == "crate-type" :> l
Name(n) == "name" :> n
Version == "version" :> <<"1">>

Manifests ==
    { Malformed,
      \* not a cdylib: no [lib], no crate-type, empty crate-type, other crate-type
      Valid(Package(b)),
      Valid(Lib(Name(foo)) @@ Package(b)),
      Valid(Lib(CrateType(<<>>) @@ Name(b)) @@ Package(foo)),
      Valid(Lib(CrateType(<<"rlib">>) @@ Name(foo)) @@ Package(foo)),
      \* cdylib with a lib.name
      Valid(Lib(CrateType(<<"cdylib">>) @@ Name(b)) @@ Package(foo)),
      Valid(Lib(CrateType(<<"rlib", "cdylib">>) @@ Name(foo_bar)) @@ Package(b)),
      \* cdylib without lib.name
      Valid(Lib(CrateType(<<"cdylib">>)) @@ Package(foo)),
      \* cdylib with an empty lib.name
      Valid(Lib(CrateType(<<"cdylib">>) @@ Name(<<>>)) @@ Package(b)),
      Valid(Lib(CrateType(<<"cdylib">>) @@ Name(<<>>)) @@ Package(<<>>)),
      \* cdylib with no name at all: no [package], or [package] without name
      Valid(Lib(CrateType(<<"cdylib">>))),
      Valid(Lib(CrateType(<<"cdylib">>) @@ Name(<<>>)) @@ [package |-> Version]) }

OutFooBar ==
    <<"-", "-", "o", "u", "t", "=", "F", "o", "o", "_", "b", "a", "r", ".", "w", "a", "s", "m", "\n">>
SaveWithPath ==
    <<"S", "A", "V", "E", " ", "A", "R", "T", "I", "F", "A", "C", "T", " ", ".", "/", "t", "a",
      "r", "g", "e", "t", " ", "f", "o", "o", "-", "m", "o", "d", ".", "w", "a", "s", "m", "\n">>
OutThenSaveWithPath ==
    <<"-", "-", "o", "u", "t", "=", "a", ".", "w", "a", "s", "m", "\n", "S", "A", "V", "E", " ",
      "A", "R", "T", "I", "F", "A", "C", "T", " ", "x", " ", "b", ".", "w", "a", "s", "m", "\n">>
SaveThenOut ==
    <<"S", "A", "V", "E", " ", "A", "R", "T", "I", "F", "A", "C", "T", " ", "b", ".", "w", "a",
      "s", "m", "\n", "-", "-", "o", "u", "t", "=", "a", ".", "w", "a", "s", "m", "\n">>
OutThenSave ==
    <<"-", "-", "o", "u", "t", "=", "a", ".", "w", "a", "s", "m", "\n", "S", "A", "V", "E", " ",
      "A", "R", "T", "I", "F", "A", "C", "T", " ", "b", ".", "w", "a", "s", "m", "\n">>
NoDirective == <<"F", "R", "O", "M", " ", "r", "u", "s", "t", "\n">>

Earthfiles == {OutFooBar, SaveWithPath, OutThenSaveWithPath, SaveThenOut, OutThenSave, NoDirective}

\* the cdylib manifests that yield the names b, foo-bar and foo
NamedCdylibs ==
    { Valid(Lib(CrateType(<<"cdylib">>) @@ Name(b)) @@ Package(foo)),
      Valid(Lib(CrateType(<<"rlib", "cdylib">>) @@ Name(foo_bar)) @@ Package(b)),
      Valid(Lib(CrateType(<<"cdylib">>)) @@ Package(foo)) }

\* a directory holding a Cargo.toml, with or without an Earthfile beside it
Dir(m, has, t) == [cargo_toml |-> m, has_earthfile |-> has, earthfile |-> t]

\* every manifest without an Earthfile and beside two Earthfiles that declare a
\* name; the named cdylib manifests beside every Earthfile
Dirs ==
    {Dir(m, FALSE, <<>>) : m \in Manifests}
    \cup {Dir(m, TRUE, t) : m \in Manifests, t \in {OutFooBar, OutThenSave}}
    \cup {Dir(m, TRUE, t) : m \in NamedCdylibs, t \in Earthfiles}

Trees == UNION {[1..n -> Dirs] : n \in 0..MaxDirs}

\* inputs of a direct call of normalize: None and the names up to MaxLen
NormChars == {"a", "A", "b", "-", "_"}
NormInputs == {None} \cup UNION {[1..n -> NormChars] : n \in 0..MaxLen}

NoCall == <<None, None>>
NoRet == <<None, None, None>>

\* ---------------------------------------------------------------- Init
Init ==
    /\ ROOT \in Trees
    /\ pc = "loop"
    /\ cargo = 0
    /\ name = Unbound
    /\ e_name = Unbound
    /\ errors = <<>>
    /\ stdout = <<>>
    /\ exit_code = NoCode
    /\ exc = NoExc
    /\ arg = NoCall
    /\ ret = NoRet

\* ---------------------------------------------------------------- loop body
\* cargo_name raises: the traceback ends the run with status 1
LoopRaise ==
    /\ pc = "loop" /\ cargo < Len(ROOT)
    /\ cargo_name(ROOT[cargo + 1].cargo_toml).raised # NoExc
    /\ cargo' = cargo + 1
    /\ exc' = cargo_name(ROOT[cargo + 1].cargo_toml).raised
    /\ exit_code' = 1
    /\ pc' = "exited"
    /\ UNCHANGED <<ROOT, name, e_name, errors, stdout, arg, ret>>

\* if not name: continue
LoopSkip ==
    /\ pc = "loop" /\ cargo < Len(ROOT)
    /\ cargo_name(ROOT[cargo + 1].cargo_toml).raised = NoExc
    /\ ~Truthy(cargo_name(ROOT[cargo + 1].cargo_toml).value)
    /\ cargo' = cargo + 1
    /\ name' = cargo_name(ROOT[cargo + 1].cargo_toml).value
    /\ UNCHANGED <<ROOT, pc, e_name, errors, stdout, exit_code, exc, arg, ret>>

\* the condition of line 61 holds: the message is appended
LoopAppend ==
    /\ pc = "loop" /\ cargo < Len(ROOT)
    /\ cargo_name(ROOT[cargo + 1].cargo_toml).raised = NoExc
    /\ Truthy(cargo_name(ROOT[cargo + 1].cargo_toml).value)
    /\ cargo' = cargo + 1
    /\ name' = cargo_name(ROOT[cargo + 1].cargo_toml).value
    /\ e_name' = earthly_name(ROOT[cargo + 1])
    /\ mismatch(name', e_name')
    /\ errors' = errors_append(errors, message(cargo', name', e_name'))
    /\ UNCHANGED <<ROOT, pc, stdout, exit_code, exc, arg, ret>>

\* the condition of line 61 fails: next iteration
LoopPass ==
    /\ pc = "loop" /\ cargo < Len(ROOT)
    /\ cargo_name(ROOT[cargo + 1].cargo_toml).raised = NoExc
    /\ Truthy(cargo_name(ROOT[cargo + 1].cargo_toml).value)
    /\ cargo' = cargo + 1
    /\ name' = cargo_name(ROOT[cargo + 1].cargo_toml).value
    /\ e_name' = earthly_name(ROOT[cargo + 1])
    /\ ~mismatch(name', e_name')
    /\ UNCHANGED <<ROOT, pc, errors, stdout, exit_code, exc, arg, ret>>

\* ---------------------------------------------------------------- reporter
\* the walk is over and errors is non-empty: print, sys.exit(1)
Report ==
    /\ pc = "loop" /\ cargo = Len(ROOT)
    /\ errors # <<>>
    /\ stdout' = print(stdout, str_join(<<"\n">>, errors))
    /\ exit_code' = 1
    /\ pc' = "exited"
    /\ UNCHANGED <<ROOT, cargo, name, e_name, errors, exc, arg, ret>>

\* the walk is over and errors is empty: the script ends, status 0
ExitClean ==
    /\ pc = "loop" /\ cargo = Len(ROOT)
    /\ errors = <<>>
    /\ exit_code' = 0
    /\ pc' = "exited"
    /\ UNCHANGED <<ROOT, cargo, name, e_name, errors, stdout, exc, arg, ret>>

Next == LoopRaise \/ LoopSkip \/ LoopAppend \/ LoopPass \/ Report \/ ExitClean

Spec == Init /\ [][Next]_vars

\* ---------------------------------------------------------------- normalize, called directly
InitNormalize ==
    /\ ROOT = <<>>
    /\ pc = "call"
    /\ cargo = 0
    /\ name = Unbound
    /\ e_name = Unbound
    /\ errors = <<>>
    /\ stdout = <<>>
    /\ exit_code = NoCode
    /\ exc = NoExc
    /\ arg \in NormInputs \X NormInputs
    /\ ret = NoRet

\* normalize(a), normalize(b) and normalize(normalize(a))
NormalizeCall ==
    /\ pc = "call"
    /\ ret' = <<normalize(arg[1]), normalize(arg[2]), normalize(normalize(arg[1]))>>
    /\ pc' = "returned"
    /\ UNCHANGED <<ROOT, cargo, name, e_name, errors, stdout, exit_code, exc, arg>>

NextNormalize == NormalizeCall

SpecNormalize == InitNormalize /\ [][NextNormalize]_vars

\* ================================================================ properties
\* ---------------------------------------------------------------- vocabulary
\* the iteration of the loop for the i-th manifest has run (to its end or to a raise)
Visited(i) == i \in 1..cargo

\* the current iteration ran to its end: name holds the value for ROOT[cargo]
Returned == cargo >= 1 /\ exc = NoExc

\* the positions of the messages of errors that are about directory i
EntriesFor(i) ==
    {k \in DOMAIN errors : LiteralAt(errors[k], 1, parent(i) \o <<":">>)}

\* the name the manifest parser gives for directory i (None when it raises)
ManifestName(i) == cargo_name(ROOT[i].cargo_toml).value
\* the name the recipe scanner gives for directory i
RecipeName(i) == earthly_name(ROOT[i])

\* the manifest of directory i is well formed and has no "cdylib" in lib.crate-type
NotCdylib(i) ==
    LET f == ROOT[i].cargo_toml
    IN /\ f.valid
       /\ \/ "lib" \notin DOMAIN f.data
          \/ "crate-type" \notin DOMAIN f.data["lib"]
          \/ \A k \in DOMAIN f.data["lib"]["crate-type"] :
                f.data["lib"]["crate-type"][k] # "cdylib"

IsCdylib(i) == ROOT[i].cargo_toml.valid /\ ~NotCdylib(i)

HasLibName(i) == "name" \in DOMAIN ROOT[i].cargo_toml.data["lib"]
LibName(i) == ROOT[i].cargo_toml.data["lib"]["name"]
HasPackageName(i) ==
    /\ "package" \in DOMAIN ROOT[i].cargo_toml.data
    /\ "name" \in DOMAIN ROOT[i].cargo_toml.data["package"]
PackageName(i) == ROOT[i].cargo_toml.data["package"]["name"]

RECURSIVE Lines(_)
\* the lines of a text, each ended by a newline
Lines(s) ==
    IF s = <<>> THEN <<>>
    ELSE LET n == Min({i \in 1..Len(s) : s[i] = "\n"} \cup {Len(s)})
         IN <<SubSeq(s, 1, IF s[n] = "\n" THEN n - 1 ELSE n)>> \o Lines(SubSeq(s, n + 1, Len(s)))

\* the names a recognised directive starting at position i of text declares:
\* --out=<name>.wasm or SAVE ARTIFACT <name>.wasm, <name> over [A-Za-z0-9_-]
DirectiveNames(text, i) ==
    UNION {IF ~LiteralAt(text, i, keyword) THEN {}
           ELSE {n \in {SubSeq(text, i + Len(keyword), k) : k \in 1..Len(text)} :
                    /\ n # <<>>
                    /\ \A p \in DOMAIN n : n[p] \in NameChars
                    /\ LiteralAt(text, i + Len(keyword) + Len(n), DotWasm)} :
           keyword \in {OutFlag, SaveArtifact}}

DirectivePositions(text) == {i \in 1..Len(text) : DirectiveNames(text, i) # {}}

\* ---------------------------------------------------------------- C1
\* C1 as stated: for every visited directory there is a Mismatch entry in errors
\* if and only if the manifest name and the recipe name are both present (not
\* None) and their normalised forms differ.
C1_Original ==
    \A i \in 1..Len(ROOT) : Visited(i) =>
        (EntriesFor(i) # {} <=>
            /\ ManifestName(i) # None
            /\ RecipeName(i) # None
            /\ normalize(ManifestName(i)) # normalize(RecipeName(i)))

\* C1 amended: for every visited directory there is exactly one Mismatch entry in
\* errors, carrying the two names as declared, if both names are present and
\* non-empty and their normalised forms differ, and there is no entry otherwise.
C1_MismatchIff ==
    \A i \in 1..Len(ROOT) : Visited(i) =>
        IF /\ Truthy(ManifestName(i))
           /\ Truthy(RecipeName(i))
           /\ normalize(ManifestName(i)) # normalize(RecipeName(i))
        THEN /\ Cardinality(EntriesFor(i)) = 1
             /\ \A k \in EntriesFor(i) :
                    errors[k] = message(i, ManifestName(i), RecipeName(i))
        ELSE EntriesFor(i) = {}

\* a scan that appended for one directory, passed a directory whose names agree
\* after normalisation though they differ as written
C1_Witness ==
    /\ cargo = 2
    /\ EntriesFor(1) # {}
    /\ EntriesFor(2) = {}
    /\ Truthy(ManifestName(2)) /\ Truthy(RecipeName(2))
    /\ ManifestName(2) # RecipeName(2)

\* ---------------------------------------------------------------- C2
\* C2: when the scan has completed without an exception, either errors is
\* non-empty, the status is 1 and standard output holds exactly the messages of
\* errors, one per line, or errors is empty, the status is 0 and nothing is printed.
C2_ExitAndOutput ==
    (pc = "exited" /\ exc = NoExc) =>
        IF errors # <<>>
        THEN exit_code = 1 /\ Lines(stdout) = errors
        ELSE exit_code = 0 /\ stdout = <<>>

C2_Witness ==
    /\ pc = "exited" /\ exc = NoExc
    /\ Len(errors) = 2
    /\ Len(Lines(stdout)) = 2

\* ---------------------------------------------------------------- C3
\* C3: once the scan has reached a malformed manifest the run is over with the
\* parse error, a non-zero status and an empty standard output, whatever errors
\* holds by then.
C3_MalformedAborts ==
    \A i \in 1..Len(ROOT) : (Visited(i) /\ ~ROOT[i].cargo_toml.valid) =>
        /\ i = cargo
        /\ pc = "exited"
        /\ exc = "TOMLDecodeError"
        /\ exit_code # NoCode /\ exit_code # 0
        /\ stdout = <<>>

C3_Witness ==
    /\ cargo = 2
    /\ ~ROOT[2].cargo_toml.valid
    /\ errors # <<>>
    /\ pc = "exited"

\* ---------------------------------------------------------------- C4
\* C4 as stated: for a directory whose manifest is a cdylib named foo and whose
\* Earthfile is `SAVE ARTIFACT ./target foo-mod.wasm`, once the iteration has run
\* the scanner has extracted foo-mod and errors holds the mismatch of foo and
\* foo-mod for that directory.
C4_SaveArtifactWithPath ==
    (/\ Returned
     /\ ManifestName(cargo) = foo
     /\ ROOT[cargo].has_earthfile
     /\ ROOT[cargo].earthfile = SaveWithPath) =>
        /\ e_name = <<"f", "o", "o", "-", "m", "o", "d">>
        /\ \E k \in DOMAIN errors :
              errors[k] = message(cargo, foo, <<"f", "o", "o", "-", "m", "o", "d">>)

\* ---------------------------------------------------------------- C5
\* C5: when the Earthfile of the current directory holds recognised directives,
\* e_name is the name declared by the one at the leftmost position; for
\* `--out=a.wasm` then `SAVE ARTIFACT x b.wasm` it is a, and a manifest named b
\* is reported against a.
C5_FirstMatchWins ==
    (Returned /\ Truthy(name) /\ ROOT[cargo].has_earthfile) =>
        LET text == ROOT[cargo].earthfile
        IN /\ DirectivePositions(text) # {} =>
                e_name \in DirectiveNames(text, Min(DirectivePositions(text)))
           /\ text = OutThenSaveWithPath =>
                /\ e_name = <<"a">>
                /\ name = b => errors[Len(errors)] = message(cargo, b, <<"a">>)

\* a file with two recognised directives, the later one naming the manifest's name
C5_Witness ==
    /\ Returned /\ name = b
    /\ ROOT[cargo].has_earthfile
    /\ Cardinality(DirectivePositions(ROOT[cargo].earthfile)) = 2
    /\ DirectiveNames(ROOT[cargo].earthfile, Max(DirectivePositions(ROOT[cargo].earthfile))) = {b}
    /\ e_name = <<"a">>
    /\ EntriesFor(cargo) # {}

\* ---------------------------------------------------------------- C6
\* C6: errors never holds an entry for a visited directory whose manifest has no
\* "cdylib" in lib.crate-type (no [lib], no crate-type, or a list without it).
C6_NonCdylibNeverReported ==
    \A i \in 1..Len(ROOT) : (Visited(i) /\ NotCdylib(i)) => EntriesFor(i) = {}

\* a completed scan over a non-cdylib manifest beside an Earthfile that declares
\* a name different from every name in the manifest
C6_Witness ==
    /\ pc = "exited" /\ exc = NoExc
    /\ \E i \in 1..Len(ROOT) :
          /\ NotCdylib(i)
          /\ HasPackageName(i)
          /\ Truthy(RecipeName(i))
          /\ normalize(RecipeName(i)) # normalize(PackageName(i))

\* ---------------------------------------------------------------- C7
\* two names are the same up to hyphen versus underscore and letter case
SameLetter(c, d) == \E i \in DOMAIN UpperCase : {c, d} \subseteq {UpperCase[i], LowerCase[i]}
SameUpToPunctuationAndCase(x, y) ==
    /\ Len(x) = Len(y)
    /\ \A i \in DOMAIN x :
          \/ x[i] = y[i]
          \/ {x[i], y[i]} \subseteq {"-", "_"}
          \/ SameLetter(x[i], y[i])

\* C7: normalize gives equal results on names that differ only in hyphen versus
\* underscore and in case, normalize(normalize(a)) = normalize(a), and None
\* gives None.
C7_Normalize ==
    pc = "returned" =>
        /\ (/\ arg[1] # None /\ arg[2] # None
            /\ SameUpToPunctuationAndCase(arg[1], arg[2])) => ret[1] = ret[2]
        /\ ret[3] = ret[1]
        /\ arg[1] = None => ret[1] = None

C7_Witness ==
    /\ pc = "returned"
    /\ arg[1] = <<"A", "-">> /\ arg[2] = <<"a", "_">>
    /\ ret[1] = <<"a", "_">>

\* ---------------------------------------------------------------- C8
\* the visited directories, in discovery order, whose two names are both
\* non-empty and differ after normalisation
MismatchedDirs ==
    SelectSeq([i \in 1..Len(ROOT) |-> i],
              LAMBDA i : /\ Truthy(ManifestName(i)) /\ Truthy(RecipeName(i))
                         /\ normalize(ManifestName(i)) # normalize(RecipeName(i)))

\* C8: after a completed scan errors holds one entry for every mismatched
\* directory of the tree, in the order the walker discovered them.
C8_AllMismatchesInOrder ==
    (pc = "exited" /\ exc = NoExc) =>
        errors = [k \in DOMAIN MismatchedDirs |->
                    message(MismatchedDirs[k], ManifestName(MismatchedDirs[k]),
                            RecipeName(MismatchedDirs[k]))]

C8_Witness ==
    /\ pc = "exited" /\ exc = NoExc
    /\ Len(ROOT) = 2 /\ ROOT[1] # ROOT[2]
    /\ EntriesFor(1) = {1} /\ EntriesFor(2) = {2}

\* ---------------------------------------------------------------- C9
\* C9 as stated: for a cdylib manifest the parser returns lib.name whenever the
\* field is present, and package.name when it is not.
C9_Original ==
    (cargo >= 1 /\ IsCdylib(cargo)) =>
        /\ HasLibName(cargo) => (exc = NoExc /\ name = LibName(cargo))
        /\ (~HasLibName(cargo) /\ HasPackageName(cargo)) =>
                (exc = NoExc /\ name = PackageName(cargo))

\* C9 amended: for a cdylib manifest the parser returns lib.name whenever the
\* field is present and non-empty, and package.name only when lib.name is
\* absent or empty.
C9_LibNameElsePackageName ==
    (cargo >= 1 /\ IsCdylib(cargo)) =>
        /\ (HasLibName(cargo) /\ LibName(cargo) # <<>>) =>
                (exc = NoExc /\ name = LibName(cargo))
        /\ (~(HasLibName(cargo) /\ LibName(cargo) # <<>>) /\ HasPackageName(cargo)) =>
                (exc = NoExc /\ name = PackageName(cargo))

C9_Witness ==
    /\ cargo >= 1 /\ IsCdylib(cargo) /\ exc = NoExc
    /\ HasLibName(cargo) /\ HasPackageName(cargo)
    /\ LibName(cargo) # <<>>
    /\ LibName(cargo) # PackageName(cargo)
    /\ name = LibName(cargo)

\* ---------------------------------------------------------------- C10
\* C10: a well-formed cdylib manifest with no non-empty lib.name and no
\* package.name ends the run with a KeyError: non-zero status, nothing printed,
\* whatever errors holds by then.
C10_MissingNameAborts ==
    \A i \in 1..Len(ROOT) :
        (/\ Visited(i) /\ IsCdylib(i)
         /\ ~(HasLibName(i) /\ LibName(i) # <<>>)
         /\ ~HasPackageName(i)) =>
            /\ i = cargo
            /\ pc = "exited"
            /\ exc = "KeyError"
            /\ exit_code # NoCode /\ exit_code # 0
            /\ stdout = <<>>

C10_Witness ==
    /\ cargo = 2
    /\ exc = "KeyError"
    /\ errors # <<>>
    /\ pc = "exited"

====
